---- MODULE Spec2Model ----
(***************************************************************************)
(* A model of parsl/app/app_factory.py: AppFactory (one callable bound to  *)
(* one app class, with its cache identity func_hash computed once in       *)
(* __init__) and AppFactoryFactory (the registry of app kinds and make).   *)
(*                                                                         *)
(* Python values are modelled as follows.                                  *)
(*   str        a sequence of Unicode code points                          *)
(*   bytes      a sequence of integers 0..255                              *)
(*   None, True, False, 1 (as values of the cache argument), class and     *)
(*   handle references: TLA+ strings naming the object                     *)
(*   list / None (auxiliary_files): a record [tag, items]                  *)
(*   a 32-bit word of MD5: a pair <<hi, lo>> of 16-bit halves              *)
(***************************************************************************)
EXTENDS Integers, Sequences, FiniteSets

(***************************************************************************)
(* str.encode('utf-8')                                                     *)
(***************************************************************************)

\* The UTF-8 bytes of one code point (of one that is not a surrogate,
\* D800..DFFF, for which Python raises UnicodeEncodeError; no text of the
\* model holds one).
EncodeCodePoint(c) ==
  IF c < 128 THEN << c >>
  ELSE IF c < 2048 THEN << 192 + (c \div 64), 128 + (c % 64) >>
  ELSE IF c < 65536
    THEN << 224 + (c \div 4096), 128 + ((c \div 64) % 64), 128 + (c % 64) >>
  ELSE << 240 + (c \div 262144), 128 + ((c \div 4096) % 64),
          128 + ((c \div 64) % 64), 128 + (c % 64) >>

RECURSIVE encode(_)
\* fn_source.encode('utf-8'): the concatenation of the code points' encodings.
encode(s) ==
  IF s = << >> THEN << >> ELSE EncodeCodePoint(Head(s)) \o encode(Tail(s))

(***************************************************************************)
(* hashlib.md5(...).hexdigest(), RFC 1321, on 16-bit halves                *)
(***************************************************************************)

RECURSIVE And16(_, _)
And16(a, b) ==
  IF a = 0 \/ b = 0 THEN 0
  ELSE (a % 2) * (b % 2) + 2 * And16(a \div 2, b \div 2)

RECURSIVE Xor16(_, _)
Xor16(a, b) ==
  IF a = 0 THEN b
  ELSE IF b = 0 THEN a
  ELSE ((a + b) % 2) + 2 * Xor16(a \div 2, b \div 2)

Or16(a, b) == a + b - And16(a, b)

Not16(a) == 65535 - a

WAnd(x, y) == << And16(x[1], y[1]), And16(x[2], y[2]) >>

WOr(x, y) == << Or16(x[1], y[1]), Or16(x[2], y[2]) >>

WXor(x, y) == << Xor16(x[1], y[1]), Xor16(x[2], y[2]) >>

WNot(x) == << Not16(x[1]), Not16(x[2]) >>

\* Addition modulo 2^32.
WAdd(x, y) ==
  LET lo == x[2] + y[2]
      hi == x[1] + y[1] + (lo \div 65536)
  IN  << hi % 65536, lo % 65536 >>

\* Left rotation of a 32-bit word by s, 0 < s < 32.
WRotl(x, s) ==
  LET w == IF s >= 16 THEN << x[2], x[1] >> ELSE x
      r == s % 16
      p == 2 ^ r
      q == 2 ^ (16 - r)
  IN  IF r = 0 THEN w
      ELSE << (w[1] % q) * p + (w[2] \div q), (w[2] % q) * p + (w[1] \div q) >>

\* K[i] = floor(2^32 * abs(sin(i + 1))), i = 0..63, at index i + 1.
MD5_K ==
  <<
    <<55146, 42104>>, <<59591, 46934>>, <<9248, 28891>>, <<49597, 52974>>,
    <<62844, 4015>>, <<18311, 50730>>, <<43056, 17939>>, <<64838, 38145>>,
    <<27008, 39128>>, <<35652, 63407>>, <<65535, 23473>>, <<35164, 55230>>,
    <<27536, 4386>>, <<64920, 29075>>, <<42617, 17294>>, <<18868, 2081>>,
    <<63006, 9570>>, <<49216, 45888>>, <<9822, 23121>>, <<59830, 51114>>,
    <<54831, 4189>>, <<580, 5203>>, <<55457, 59009>>, <<59347, 64456>>,
    <<8673, 52710>>, <<49975, 2006>>, <<62677, 3463>>, <<17754, 5357>>,
    <<43491, 59653>>, <<64751, 41976>>, <<26479, 729>>, <<36138, 19594>>,
    <<65530, 14658>>, <<34673, 63105>>, <<28061, 24866>>, <<64997, 14348>>,
    <<42174, 59972>>, <<19422, 53161>>, <<63163, 19296>>, <<48831, 48240>>,
    <<10395, 32454>>, <<60065, 10234>>, <<54511, 12421>>, <<1160, 7429>>,
    <<55764, 53305>>, <<59099, 39397>>, <<8098, 31992>>, <<50348, 22117>>,
    <<62505, 8772>>, <<17194, 65431>>, <<43924, 9127>>, <<64659, 41017>>,
    <<25947, 22979>>, <<36620, 52370>>, <<65519, 62589>>, <<34180, 24017>>,
    <<28584, 32335>>, <<65068, 59104>>, <<41729, 17172>>, <<19976, 4513>>,
    <<63315, 32386>>, <<48442, 62005>>, <<10967, 53947>>, <<60294, 54161>>
  >>

\* The per-round shift amounts.
MD5_S ==
  << 7, 12, 17, 22, 7, 12, 17, 22, 7, 12, 17, 22, 7, 12, 17, 22,
     5, 9, 14, 20, 5, 9, 14, 20, 5, 9, 14, 20, 5, 9, 14, 20,
     4, 11, 16, 23, 4, 11, 16, 23, 4, 11, 16, 23, 4, 11, 16, 23,
     6, 10, 15, 21, 6, 10, 15, 21, 6, 10, 15, 21, 6, 10, 15, 21 >>

\* The initial chaining value 67452301 efcdab89 98badcfe 10325476.
MD5_IV == << <<26437, 8961>>, <<61389, 43913>>, <<39098, 56574>>, <<4146, 21622>> >>

RECURSIVE Zeros(_)
Zeros(n) == IF n <= 0 THEN << >> ELSE << 0 >> \o Zeros(n - 1)

\* The message followed by 0x80, zeros up to 56 mod 64, and the bit length
\* as a 64-bit little-endian integer (messages here are far below 2^24 bits).
MD5Pad(msg) ==
  LET n    == Len(msg)
      bits == 8 * n
      z    == (55 - n) % 64
  IN  msg \o << 128 >> \o Zeros(z)
          \o << bits % 256, (bits \div 256) % 256, (bits \div 65536) % 256 >>
          \o Zeros(5)

\* Word g (0..15) of the 64-byte block starting after offset off, little-endian.
MD5Word(p, off, g) ==
  LET b == off + 4 * g
  IN  << p[b + 3] + 256 * p[b + 4], p[b + 1] + 256 * p[b + 2] >>

MD5F(i, B, C, D) ==
  IF i < 16 THEN WOr(WAnd(B, C), WAnd(WNot(B), D))
  ELSE IF i < 32 THEN WOr(WAnd(D, B), WAnd(WNot(D), C))
  ELSE IF i < 48 THEN WXor(B, WXor(C, D))
  ELSE WXor(C, WOr(B, WNot(D)))

MD5G(i) ==
  IF i < 16 THEN i
  ELSE IF i < 32 THEN (5 * i + 1) % 16
  ELSE IF i < 48 THEN (3 * i + 5) % 16
  ELSE (7 * i) % 16

RECURSIVE MD5Rounds(_, _, _, _)
\* Rounds i..63 on the state st = <<A, B, C, D>>.  (Len(st) = 4 always holds;
\* testing it makes the evaluator compute st before the next round.)
MD5Rounds(i, st, p, off) ==
  IF i = 64 \/ Len(st) # 4 THEN st
  ELSE LET F == WAdd(WAdd(MD5F(i, st[2], st[3], st[4]), st[1]),
                     WAdd(MD5_K[i + 1], MD5Word(p, off, MD5G(i))))
       IN  MD5Rounds(i + 1,
                     << st[4], WAdd(st[2], WRotl(F, MD5_S[i + 1])), st[2], st[3] >>,
                     p, off)

RECURSIVE MD5Blocks(_, _, _)
MD5Blocks(h, p, off) ==
  IF off >= Len(p) THEN h
  ELSE LET r == MD5Rounds(0, h, p, off)
       IN  MD5Blocks(<< WAdd(h[1], r[1]), WAdd(h[2], r[2]),
                        WAdd(h[3], r[3]), WAdd(h[4], r[4]) >>, p, off + 64)

\* The code point of a lower-case hex digit.
HexDigit(n) == IF n < 10 THEN 48 + n ELSE 87 + n

HexByte(b) == << HexDigit(b \div 16), HexDigit(b % 16) >>

\* A word's four bytes, least significant first, in hex.
HexWord(w) ==
  HexByte(w[2] % 256) \o HexByte(w[2] \div 256)
    \o HexByte(w[1] % 256) \o HexByte(w[1] \div 256)

\* md5(data).hexdigest() as a str.
MD5Compute(data) ==
  LET h == MD5Blocks(MD5_IV, MD5Pad(data), 0)
  IN  HexWord(h[1]) \o HexWord(h[2]) \o HexWord(h[3]) \o HexWord(h[4])

(***************************************************************************)
(* Bounds of the model                                                     *)
(***************************************************************************)

\* The most AppFactory objects constructed.
MaxFactories == 2

\* The most app objects (wrapper instances) constructed.
MaxApps == 3

\* The most objects (factories and app objects) in the specification that
\* interleaves make with invocations.
MaxObjects == 3

(***************************************************************************)
(* Python values                                                           *)
(***************************************************************************)

None == "None"

\* Values passed as the cache argument: the booleans and the integer 1, which
\* is truthy and equal to True but is not the object True.
PyTrue == "True"

PyFalse == "False"

PyOne == "1"

PyNoneList == [tag |-> "None", items |-> << >>]

PyList(items) == [tag |-> "list", items |-> items]

BashApp == "BashApp"

PythonApp == "PythonApp"

\* The default of __init__'s walltime parameter.
DefaultWalltime == 60

(***************************************************************************)
(* The callables handed to the factory.  Each is a reference; its          *)
(* attributes are what func.__name__, inspect.signature(func) and          *)
(* inspect.getsource(func) yield.                                          *)
(*   f        def f(x), source on disk                                     *)
(*   h        a function whose source is longer than one MD5 block and     *)
(*            holds non-ASCII characters                                   *)
(*   dyn      a function made by exec: signature known, getsource raises   *)
(*            OSError; its name is not ASCII                               *)
(*   len      a builtin: signature known, getsource raises TypeError       *)
(*   int      a builtin class: signature raises ValueError                 *)
(*   partial  a functools.partial object: it has no __name__               *)
(***************************************************************************)

Callables == {"f", "h", "dyn", "len", "int", "partial"}

\* "def f(x):\n    return x\n"
SourceF ==
  << 100, 101, 102, 32, 102, 40, 120, 41, 58, 10, 32, 32, 32, 32, 114, 101,
     116, 117, 114, 110, 32, 120, 10 >>

\* "def h(path):\n    return 'cat {0} > résumé.txt'.format(path)\n"
SourceH ==
  << 100, 101, 102, 32, 104, 40, 112, 97, 116, 104, 41, 58, 10, 32, 32, 32,
     32, 114, 101, 116, 117, 114, 110, 32, 39, 99, 97, 116, 32, 123, 48, 125,
     32, 62, 32, 114, 233, 115, 117, 109, 233, 46, 116, 120, 116, 39, 46, 102,
     111, 114, 109, 97, 116, 40, 112, 97, 116, 104, 41, 10 >>

HasName(func) == func # "partial"

\* func.__name__ (of a callable that has one).
FuncName(func) ==
  CASE func = "f"   -> << 102 >>
    [] func = "h"   -> << 104 >>
    [] func = "dyn" -> << 100, 253, 110 >>
    [] func = "len" -> << 108, 101, 110 >>
    [] func = "int" -> << 105, 110, 116 >>
    [] OTHER        -> << >>

\* inspect.signature(func): the Signature, or the exception raised.
signature(func) ==
  CASE func = "f"   -> [exc |-> None, sig |-> << "x" >>]
    [] func = "h"   -> [exc |-> None, sig |-> << "path" >>]
    [] func = "dyn" -> [exc |-> None, sig |-> << "a" >>]
    [] func = "len" -> [exc |-> None, sig |-> << "obj", "/" >>]
    [] OTHER        -> [exc |-> "ValueError", sig |-> << >>]

\* inspect.getsource(func): the source text, or the exception raised.
getsource(func) ==
  CASE func = "f"   -> [exc |-> None, text |-> SourceF]
    [] func = "h"   -> [exc |-> None, text |-> SourceH]
    [] func = "dyn" -> [exc |-> "OSError", text |-> << >>]
    [] OTHER        -> [exc |-> "TypeError", text |-> << >>]

\* Line 59: md5(fn_source.encode('utf-8')).hexdigest()
HashText(text) == MD5Compute(encode(text))

\* Every text the model hashes with its digest, computed once.
HashTable ==
  {<< s, HashText(s) >> : s \in {SourceF, SourceH} \cup {FuncName(c) : c \in Callables}}

\* HashText(text), looked up.
md5hex(text) == (CHOOSE p \in HashTable : p[1] = text)[2]

(***************************************************************************)
(* Exceptions and log records                                              *)
(***************************************************************************)

NoExc == [type |-> None, args |-> << >>, at |-> None]

\* An exception of the given type raised by the call named at.
Exc(type, args, at) == [type |-> type, args |-> args, at |-> at]

DebugMsg == "Unable to get source code for AppCaching. Recommend creating module"

InvalidKindMsg == "AppFactory:%s Invalid app kind requested : %s "

LogRecord(level, msg, args) == [level |-> level, msg |-> msg, args |-> args]

(***************************************************************************)
(* AppFactory.__init__                                                     *)
(***************************************************************************)

\* Lines 53-57: the text that is hashed when cache is True and getsource
\* returns or raises OSError.
fn_source(func) ==
  IF getsource(func).exc = None THEN getsource(func).text ELSE FuncName(func)

\* func_hash with the digest taken of the name, not of the source.
func_hash_of_name(func, cache) ==
  IF cache = PyTrue THEN md5hex(FuncName(func)) ELSE FuncName(func)

\* func_hash with the test "if cache:" in place of "if cache is True:".
func_hash_truthy(func, cache) ==
  IF cache \in {PyTrue, PyOne}
  THEN md5hex(fn_source(func))
  ELSE FuncName(func)

\* Lines 52-61: self.func_hash.
func_hash(func, cache) ==
  IF cache = PyTrue
  THEN md5hex(fn_source(func))
  ELSE FuncName(func)

\* Lines 52-56: what __init__ logs.
InitLogs(func, cache) ==
  IF cache = PyTrue /\ getsource(func).exc = "OSError"
  THEN << LogRecord("debug", DebugMsg, << >>) >>
  ELSE << >>

\* InitLookups with getsource called before cache is tested.
InitLookupsEager(func, cache) == {func}

\* Lines 52-54: the callables __init__ calls getsource on.
InitLookups(func, cache) == IF cache = PyTrue THEN {func} ELSE {}

\* Lines 40-61: the exception __init__ raises, or NoExc.
InitExc(func, cache) ==
  IF ~HasName(func) THEN Exc("AttributeError", << >>, "__name__")
  ELSE IF signature(func).exc # None
    THEN Exc(signature(func).exc, << >>, "signature")
  ELSE IF cache = PyTrue /\ getsource(func).exc \notin {None, "OSError"}
    THEN Exc(getsource(func).exc, << >>, "getsource")
  ELSE NoExc

\* Lines 40-61: the object a completed __init__ leaves.
AppFactoryObject(app_class, func, data_flow_kernel, cache, executors, walltime, auxiliary_files) ==
  [ name             |-> FuncName(func),
    app_class        |-> app_class,
    data_flow_kernel |-> data_flow_kernel,
    func             |-> func,
    status           |-> "created",
    walltime         |-> walltime,
    executors        |-> executors,
    sig              |-> signature(func).sig,
    cache            |-> cache,
    auxiliary_files  |-> auxiliary_files,
    func_hash        |-> func_hash(func, cache) ]

\* AppFactory(app_class, func, ...): the exception or the new object, the
\* records logged and the getsource calls made on the way.
AppFactoryInit(app_class, func, data_flow_kernel, cache, executors, walltime, auxiliary_files) ==
  LET exc == InitExc(func, cache)
  IN  [ exc    |-> exc,
        made   |-> IF exc = NoExc
                   THEN << AppFactoryObject(app_class, func, data_flow_kernel,
                                            cache, executors, walltime,
                                            auxiliary_files) >>
                   ELSE << >>,
        logs   |-> IF exc.at \in {"__name__", "signature"} THEN << >>
                   ELSE InitLogs(func, cache),
        looked |-> IF exc.at \in {"__name__", "signature"} THEN {}
                   ELSE InitLookups(func, cache) ]

(***************************************************************************)
(* AppFactoryFactory                                                       *)
(***************************************************************************)

\* Lines 105-116: AppFactoryFactory(name).
AppFactoryFactoryInit(name) ==
  [ name |-> name,
    apps |-> [k \in {"bash", "python"} |->
                IF k = "bash" THEN BashApp ELSE PythonApp] ]

\* The value of keyword key: the one passed, or the parameter's default.
KwArg(kwargs, key, default) ==
  IF key \in DOMAIN kwargs THEN kwargs[key] ELSE default

\* MakeFactory with the class of python apps for every kind.
MakeFactoryPython(self, kind, func, data_flow_kernel, kwargs) ==
  AppFactoryInit(PythonApp, func, data_flow_kernel,
                 KwArg(kwargs, "cache", PyFalse),
                 KwArg(kwargs, "executors", "all"),
                 KwArg(kwargs, "walltime", DefaultWalltime),
                 KwArg(kwargs, "auxiliary_files", PyNoneList))

\* Lines 138-141: AppFactory(self.apps[kind], func,
\* data_flow_kernel=data_flow_kernel, **kwargs), with the defaults of lines
\* 20-24 for the keywords not passed.
MakeFactory(self, kind, func, data_flow_kernel, kwargs) ==
  AppFactoryInit(self.apps[kind], func, data_flow_kernel,
                 KwArg(kwargs, "cache", PyFalse),
                 KwArg(kwargs, "executors", "all"),
                 KwArg(kwargs, "walltime", DefaultWalltime),
                 KwArg(kwargs, "auxiliary_files", PyNoneList))

\* Lines 144-148: the record logged and the exception raised for a kind that
\* is not registered.
MakeInvalid(self, kind) ==
  [ exc    |-> Exc("InvalidAppTypeError", << InvalidKindMsg, self.name, kind >>,
                   "make"),
    made   |-> << >>,
    logs   |-> << LogRecord("error", InvalidKindMsg, << self.name, kind >>) >>,
    looked |-> {} ]

\* Lines 137-148: make(kind, func, data_flow_kernel, **kwargs).
MakeResult(self, kind, func, data_flow_kernel, kwargs) ==
  IF kind \in DOMAIN self.apps
  THEN MakeFactory(self, kind, func, data_flow_kernel, kwargs)
  ELSE MakeInvalid(self, kind)

(***************************************************************************)
(* Inputs                                                                  *)
(***************************************************************************)

Kinds == {"bash", "python", "nonexistent"}

\* The execution context and keyword arguments of a call of make.
Sites ==
  { [data_flow_kernel |-> None,   kwargs |-> [walltime |-> DefaultWalltime]],
    [data_flow_kernel |-> "dfk1", kwargs |-> [cache |-> PyTrue]],
    [data_flow_kernel |-> None,
     kwargs |-> [cache |-> PyTrue, executors |-> "local", walltime |-> 120,
                 auxiliary_files |-> PyList(<< "in.txt" >>)]],
    [data_flow_kernel |-> "dfk1",
     kwargs |-> [cache |-> PyOne, executors |-> "local", walltime |-> 120,
                 auxiliary_files |-> PyList(<< "in.txt" >>)]] }

\* The positional and keyword arguments of an invocation of a factory.
Invocations ==
  { [args |-> << "a" >>,      kwargs |-> << >>],
    [args |-> << "b", "c" >>, kwargs |-> << << "stdout", "out.txt" >> >>] }

Threads == {"t1", "t2"}

(***************************************************************************)
(* State                                                                   *)
(***************************************************************************)

VARIABLES
  registry,    \* the AppFactoryFactory
  factories,   \* the AppFactory objects, in order of construction
  app_objs,    \* the app objects (wrapper instances), in order of construction
  outcome,     \* the last call of make: its kind, the exception it raised,
               \* the factory it returned (an index, 0 for none), the records
               \* it logged, the callables it called getsource on and, when
               \* it returned, the other arguments it was given
  pc,          \* per thread: "idle", or "built" between the two statements
               \* of __call__
  frame,       \* per thread: the locals of its running __call__
  ret          \* per thread: what its last __call__ returned

vars == << registry, factories, app_objs, outcome, pc, frame, ret >>

NoFrame == [self |-> 0, args |-> << >>, kwargs |-> << >>, app_obj |-> 0]

NoResult == [app |-> 0, args |-> << >>, kwargs |-> << >>]

NoOutcome ==
  [kind |-> None, exc |-> NoExc, ret |-> 0, logs |-> << >>, looked |-> {},
   given |-> << >>]

\* The outcome of a call of make with result r, which returns the factory
\* at index new if it made one.
Outcome(r, new, kind, func, data_flow_kernel, kwargs) ==
  [ kind   |-> kind,
    exc    |-> r.exc,
    ret    |-> IF r.made = << >> THEN 0 ELSE new,
    logs   |-> r.logs,
    looked |-> r.looked,
    given  |-> IF r.made = << >> THEN << >>
               ELSE << [func |-> func, data_flow_kernel |-> data_flow_kernel,
                        kwargs |-> kwargs] >> ]

\* The state after AppFactoryFactory('central').
Init ==
  /\ registry = AppFactoryFactoryInit("central")
  /\ factories = << >>
  /\ app_objs = << >>
  /\ outcome = NoOutcome
  /\ pc = [t \in Threads |-> "idle"]
  /\ frame = [t \in Threads |-> NoFrame]
  /\ ret = [t \in Threads |-> NoResult]

(***************************************************************************)
(* Actions                                                                 *)
(***************************************************************************)

\* registry.make(kind, func, data_flow_kernel, **kwargs), lines 118-148.
make(kind, func, data_flow_kernel, kwargs) ==
  \E r \in {MakeResult(registry, kind, func, data_flow_kernel, kwargs)} :
      /\ Len(factories) + Len(r.made) <= MaxFactories
      /\ factories' = factories \o r.made
      /\ outcome' = Outcome(r, Len(factories) + 1, kind, func, data_flow_kernel,
                            kwargs)
      /\ UNCHANGED << registry, app_objs, pc, frame, ret >>

Make ==
  \E kind \in Kinds, func \in Callables, site \in Sites :
    make(kind, func, site.data_flow_kernel, site.kwargs)

\* NewApp with the identity taken from the name at every call, not from
\* the func_hash stored by __init__.
NewAppRenamed(self) ==
  [ cls              |-> factories[self].app_class,
    func             |-> factories[self].func,
    data_flow_kernel |-> factories[self].data_flow_kernel,
    executors        |-> factories[self].executors,
    walltime         |-> factories[self].walltime,
    cache            |-> factories[self].cache,
    fn_hash          |-> FuncName(factories[self].func),
    auxiliary_files  |-> factories[self].auxiliary_files,
    calls            |-> << >>,
    made_by          |-> self ]

\* The app object built by lines 78-84 of __call__ on the factory at index
\* self: app_class(func, data_flow_kernel=..., executors=..., walltime=...,
\* cache=..., fn_hash=..., auxiliary_files=...).  The app classes are outside
\* this file: the object records the class, the arguments its constructor
\* was given and the invocations it receives, and made_by remembers the
\* factory that built it.
NewApp(self) ==
  [ cls              |-> factories[self].app_class,
    func             |-> factories[self].func,
    data_flow_kernel |-> factories[self].data_flow_kernel,
    executors        |-> factories[self].executors,
    walltime         |-> factories[self].walltime,
    cache            |-> factories[self].cache,
    fn_hash          |-> factories[self].func_hash,
    auxiliary_files  |-> factories[self].auxiliary_files,
    calls            |-> << >>,
    made_by          |-> self ]

\* What an app object returns when invoked: a handle of that app object's
\* run of these arguments.
AppResult(app, args, kwargs) == [app |-> app, args |-> args, kwargs |-> kwargs]

\* CallTarget with the app object kept in a field shared by the threads:
\* the one built last.
CallTargetShared(t) == Len(app_objs)

\* Line 85: the app object thread t invokes, its local app_obj.
CallTarget(t) == frame[t].app_obj

\* CallArgs with the keyword arguments dropped.
CallArgsPositional(t) == [args |-> frame[t].args, kwargs |-> << >>]

\* Line 85: the arguments thread t passes on, (*args, **kwargs).
CallArgs(t) == [args |-> frame[t].args, kwargs |-> frame[t].kwargs]

\* Call with the factory's status updated by the invocation.
CallMarking(t, self, args, kwargs) ==
  /\ pc[t] = "idle"
  /\ self \in 1..Len(factories)
  /\ Len(app_objs) < MaxApps
  /\ app_objs' = Append(app_objs, NewApp(self))
  /\ frame' = [frame EXCEPT ![t] = [self |-> self, args |-> args,
                                    kwargs |-> kwargs,
                                    app_obj |-> Len(app_objs) + 1]]
  /\ pc' = [pc EXCEPT ![t] = "built"]
  /\ factories' = [factories EXCEPT ![self].status = "running"]
  /\ UNCHANGED << registry, outcome, ret >>

\* Thread t enters factories[self](*args, **kwargs) and runs lines 78-84:
\* it builds a new app object and binds it to its local app_obj.  The seven
\* reads of self's fields are one step: no statement of the file writes a
\* field of a factory after __init__, so no other thread's step can fall
\* between two of them with an effect.
Call(t, self, args, kwargs) ==
  /\ pc[t] = "idle"
  /\ self \in 1..Len(factories)
  /\ Len(app_objs) < MaxApps
  /\ app_objs' = Append(app_objs, NewApp(self))
  /\ frame' = [frame EXCEPT ![t] = [self |-> self, args |-> args,
                                    kwargs |-> kwargs,
                                    app_obj |-> Len(app_objs) + 1]]
  /\ pc' = [pc EXCEPT ![t] = "built"]
  /\ UNCHANGED << registry, factories, outcome, ret >>

\* Thread t runs line 85: it invokes the app object and returns the result.
Invoke(t) ==
  /\ pc[t] = "built"
  /\ LET a == CallArgs(t)
         o == CallTarget(t)
     IN  /\ app_objs' = [app_objs EXCEPT ![o].calls = Append(@, a)]
         /\ ret' = [ret EXCEPT ![t] = AppResult(o, a.args, a.kwargs)]
  /\ pc' = [pc EXCEPT ![t] = "idle"]
  /\ frame' = [frame EXCEPT ![t] = NoFrame]
  /\ UNCHANGED << registry, factories, outcome >>

CallStep ==
  \E t \in Threads, self \in 1..MaxFactories, inv \in Invocations :
    Call(t, self, inv.args, inv.kwargs)

InvokeStep == \E t \in Threads : Invoke(t)

(***************************************************************************)
(* Specifications                                                          *)
(***************************************************************************)

\* Construction: calls of make from the state after AppFactoryFactory(...).
Next == Make

Spec == Init /\ [][Next]_vars

\* Invocation: the state after AppFactoryFactory('central') and one call of
\* make that returned a factory, from which the threads invoke the factory.
InitCall ==
  \E kind \in Kinds, func \in Callables, site \in Sites :
    LET self == AppFactoryFactoryInit("central")
        r    == MakeResult(self, kind, func, site.data_flow_kernel, site.kwargs)
    IN  /\ r.made # << >>
        /\ registry = self
        /\ factories = r.made
        /\ outcome = Outcome(r, 1, kind, func, site.data_flow_kernel, site.kwargs)
        /\ app_objs = << >>
        /\ pc = [t \in Threads |-> "idle"]
        /\ frame = [t \in Threads |-> NoFrame]
        /\ ret = [t \in Threads |-> NoResult]

NextCall == CallStep \/ InvokeStep

SpecCall == InitCall /\ [][NextCall]_vars

\* Both together, with at most MaxObjects objects constructed.
HeapRoom == Len(factories) + Len(app_objs) < MaxObjects

NextAll == (HeapRoom /\ (Make \/ CallStep)) \/ InvokeStep

SpecAll == Init /\ [][NextAll]_vars

(***************************************************************************)
(* Properties of construction, checked under Spec                          *)
(***************************************************************************)

\* hashlib.md5(t.encode('utf-8')).hexdigest() for the source of f, the
\* source of h and the name of dyn, as CPython computes them.
DigestSourceF ==
  << 53, 100, 51, 99, 54, 57, 97, 97, 101, 99, 57, 98, 50, 100, 53, 56, 51, 57,
     98, 54, 51, 97, 53, 48, 97, 57, 49, 50, 102, 49, 99, 57 >>

DigestSourceH ==
  << 48, 102, 97, 102, 57, 57, 56, 97, 53, 99, 54, 54, 49, 53, 55, 49, 50, 100,
     54, 101, 57, 51, 52, 54, 99, 55, 100, 56, 49, 50, 50, 53 >>

DigestNameDyn ==
  << 54, 51, 56, 98, 51, 52, 98, 97, 48, 100, 49, 101, 56, 97, 53, 101, 101,
     100, 102, 99, 56, 52, 54, 48, 97, 54, 97, 100, 49, 49, 57, 99 >>

Factories == 1..Len(factories)

\* The factory the last call of make returned, when it returned one.
Returned == factories[outcome.ret]

DebugRecord == LogRecord("debug", DebugMsg, << >>)

\* C1 as stated: with cache True and a failing source lookup, func_hash is
\* the display name itself, the same string as with caching disabled.
C1_AsClaimed ==
  \A i \in Factories :
    (factories[i].cache = PyTrue /\ getsource(factories[i].func).exc # None)
      => factories[i].func_hash = FuncName(factories[i].func)

\* The state that refutes C1: make returned a factory of dyn with cache True,
\* the debug record was logged, and func_hash is the hex MD5 digest of the
\* UTF-8 encoded display name (lines 57 and 59), not the display name.
C1_Witness ==
  /\ outcome.ret # 0
  /\ outcome.exc = NoExc
  /\ Returned.func = "dyn"
  /\ Returned.cache = PyTrue
  /\ outcome.logs = << DebugRecord >>
  /\ Returned.func_hash = DigestNameDyn
  /\ Returned.func_hash = md5hex(FuncName("dyn"))
  /\ Returned.func_hash # FuncName("dyn")

\* C2: with cache True and a recoverable source, func_hash is the hex MD5
\* digest of the UTF-8 source text and of nothing else: factories of equal
\* source text agree, whatever their class and parameters, and factories of
\* the same callable and cache flag agree.
C2_DigestOfSource ==
  /\ \A i \in Factories :
       (factories[i].cache = PyTrue /\ getsource(factories[i].func).exc = None)
         => /\ factories[i].func_hash = md5hex(getsource(factories[i].func).text)
            /\ factories[i].func = "f" => factories[i].func_hash = DigestSourceF
            /\ factories[i].func = "h" => factories[i].func_hash = DigestSourceH
  /\ \A i, j \in Factories :
       /\ (factories[i].cache = PyTrue /\ factories[j].cache = PyTrue
             /\ getsource(factories[i].func).exc = None
             /\ getsource(factories[j].func).exc = None
             /\ getsource(factories[i].func).text = getsource(factories[j].func).text)
            => factories[i].func_hash = factories[j].func_hash
       /\ (factories[i].func = factories[j].func
             /\ factories[i].cache = factories[j].cache)
            => factories[i].func_hash = factories[j].func_hash

C2_Witness ==
  \E i, j \in Factories :
    /\ factories[i].func = "h" /\ factories[j].func = "h"
    /\ factories[i].cache = PyTrue /\ factories[j].cache = PyTrue
    /\ factories[i].app_class # factories[j].app_class
    /\ factories[i].walltime # factories[j].walltime
    /\ factories[i].executors # factories[j].executors
    /\ factories[i].func_hash = DigestSourceH
    /\ factories[j].func_hash = DigestSourceH

\* C3: with cache False, func_hash is the display name whatever the source,
\* and the construction calls getsource on nothing and logs nothing.
C3_DisabledIsName ==
  /\ \A i \in Factories :
       factories[i].cache = PyFalse
         => factories[i].func_hash = FuncName(factories[i].func)
  /\ (outcome.ret # 0 /\ Returned.cache = PyFalse)
       => outcome.looked = {} /\ outcome.logs = << >>

C3_Witness ==
  /\ outcome.ret # 0
  /\ Returned.cache = PyFalse
  /\ Returned.func = "h"
  /\ Returned.func_hash = << 104 >>
  /\ \E i \in Factories : factories[i].func = "len" /\ factories[i].cache = PyFalse

Registered == {"bash", "python"}

ClassOfKind(kind) == IF kind = "bash" THEN BashApp ELSE PythonApp

ErrorRecord(name, kind) == LogRecord("error", InvalidKindMsg, << name, kind >>)

\* C4 as stated: make returns a factory exactly when the kind is registered
\* (calls that end in an exception of the source lookup or of the name
\* lookup set aside).
C4_AsClaimed ==
  (outcome.kind # None /\ outcome.exc.at \notin {"getsource", "__name__"})
    => (outcome.ret # 0 <=> outcome.kind \in Registered)

\* What C4 says of the last call of make, apart from "constructs nothing".
C4_LastCall ==
  outcome.kind # None =>
    /\ outcome.ret # 0 <=> (outcome.kind \in Registered /\ outcome.exc = NoExc)
    /\ outcome.kind \in Registered
         => /\ outcome.exc.at # "make"
            /\ \A k \in 1..Len(outcome.logs) : outcome.logs[k].level # "error"
    /\ outcome.ret # 0
         => /\ outcome.ret = Len(factories)
            /\ Returned.app_class = ClassOfKind(outcome.kind)
            /\ Returned.func = outcome.given[1].func
            /\ Returned.data_flow_kernel = outcome.given[1].data_flow_kernel
            /\ \A key \in DOMAIN outcome.given[1].kwargs :
                 Returned[key] = outcome.given[1].kwargs[key]
    /\ outcome.kind \notin Registered
         => /\ outcome.exc = Exc("InvalidAppTypeError",
                                 << InvalidKindMsg, "central", outcome.kind >>,
                                 "make")
            /\ outcome.logs = << ErrorRecord("central", outcome.kind) >>
            /\ outcome.ret = 0

\* C4 amended: make returns a factory exactly when the kind is registered
\* and the construction of the AppFactory completes.  For a registered kind
\* it constructs one AppFactory of the class registered for the kind, with
\* the callable, execution context and keywords it was given, and returns
\* it or lets the constructor's exception through; for any other kind it
\* logs at error severity and raises InvalidAppTypeError with the registry's
\* name and the kind.  A call that returns nothing constructs no factory.
C4_Make ==
  /\ [] C4_LastCall
  /\ [][ /\ outcome'.ret = 0 => factories' = factories
         /\ outcome'.ret # 0 =>
              /\ Len(factories') = Len(factories) + 1
              /\ \A i \in Factories : factories'[i] = factories[i] ]_vars

C4_Witness ==
  /\ Len(factories) = 2
  /\ factories[1].app_class = BashApp
  /\ factories[1].walltime = 120
  /\ factories[2].app_class = PythonApp
  /\ outcome.kind = "nonexistent"
  /\ outcome.exc.type = "InvalidAppTypeError"

\* C9 as stated: with cache True and a callable whose signature can be
\* captured, no failure of the source lookup makes the construction fail.
C9_AsClaimed == outcome.exc.at # "getsource"

(***************************************************************************)
(* Properties of invocation, checked under SpecCall and SpecAll            *)
(***************************************************************************)

Apps == 1..Len(app_objs)

\* C5: every app object carries the func_hash its factory holds, which no
\* step changes, and no invocation step looks a source up or logs.
C5_HashOnce ==
  /\ [](\A a \in Apps :
          app_objs[a].fn_hash = factories[app_objs[a].made_by].func_hash)
  /\ [][ /\ \A i \in Factories : factories'[i].func_hash = factories[i].func_hash
         /\ outcome' = outcome ]_vars

C5_Witness ==
  \E a, b \in Apps :
    /\ a # b
    /\ app_objs[a].made_by = app_objs[b].made_by
    /\ app_objs[a].calls # << >> /\ app_objs[b].calls # << >>
    /\ app_objs[a].func = "h"
    /\ app_objs[a].fn_hash = DigestSourceH
    /\ app_objs[b].fn_hash = DigestSourceH

\* The step in which thread t runs lines 78-84: one new app object, built
\* from the factory's stored fields, and nothing else.
C6_Built(t) ==
  (pc[t] = "idle" /\ pc'[t] = "built") =>
    /\ Len(app_objs') = Len(app_objs) + 1
    /\ \A a \in Apps : app_objs'[a] = app_objs[a]
    /\ frame'[t].app_obj = Len(app_objs')
    /\ LET f == factories[frame'[t].self]
           w == app_objs'[Len(app_objs')]
       IN  /\ w.cls = f.app_class
           /\ w.func = f.func
           /\ w.data_flow_kernel = f.data_flow_kernel
           /\ w.executors = f.executors
           /\ w.walltime = f.walltime
           /\ w.cache = f.cache
           /\ w.fn_hash = f.func_hash
           /\ w.auxiliary_files = f.auxiliary_files
           /\ w.calls = << >>

\* The step in which thread t runs line 85: its app object is invoked once
\* with the arguments of the call, no app object is made, and the result of
\* that invocation is what the call returns.
C6_Invoked(t) ==
  (pc[t] = "built" /\ pc'[t] = "idle") =>
    LET o == frame[t].app_obj
    IN  /\ Len(app_objs') = Len(app_objs)
        /\ app_objs'[o] =
             [app_objs[o] EXCEPT !.calls =
                << [args |-> frame[t].args, kwargs |-> frame[t].kwargs] >>]
        /\ \A a \in Apps \ {o} : app_objs'[a] = app_objs[a]
        /\ ret'[t] = AppResult(o, frame[t].args, frame[t].kwargs)

\* C6: each invocation builds exactly one new app object of the factory's
\* class from the fields stored at construction, invokes it once with the
\* caller's arguments and returns its result.
C6_PassThrough == [][\A t \in Threads : C6_Built(t) /\ C6_Invoked(t)]_vars

C6_Witness ==
  \E a \in Apps, t \in Threads :
    /\ app_objs[a].calls =
         << [args |-> << "b", "c" >>, kwargs |-> << << "stdout", "out.txt" >> >>] >>
    /\ app_objs[a].walltime = 120
    /\ app_objs[a].auxiliary_files = PyList(<< "in.txt" >>)
    /\ ret[t] = AppResult(a, << "b", "c" >>, << << "stdout", "out.txt" >> >>)

\* The app object a is what one invocation of its factory, alone, leaves.
C7_AsIfAlone(a) ==
  LET f == factories[app_objs[a].made_by]
      w == app_objs[a]
  IN  /\ w.cls = f.app_class /\ w.func = f.func
      /\ w.data_flow_kernel = f.data_flow_kernel
      /\ w.executors = f.executors /\ w.walltime = f.walltime
      /\ w.cache = f.cache /\ w.fn_hash = f.func_hash
      /\ w.auxiliary_files = f.auxiliary_files
      /\ Len(w.calls) <= 1

C7_State ==
  /\ \A a \in Apps : C7_AsIfAlone(a)
  /\ \A t \in Threads :
       /\ pc[t] = "built" =>
            /\ frame[t].app_obj \in Apps
            /\ app_objs[frame[t].app_obj].calls = << >>
            /\ app_objs[frame[t].app_obj].made_by = frame[t].self
       /\ ret[t].app # 0 =>
            /\ app_objs[ret[t].app].calls =
                 << [args |-> ret[t].args, kwargs |-> ret[t].kwargs] >>
            /\ pc[t] = "built" => frame[t].app_obj # ret[t].app
  /\ \A t, u \in Threads :
       t # u =>
         /\ (pc[t] = "built" /\ pc[u] = "built")
              => frame[t].app_obj # frame[u].app_obj
         /\ ret[t].app # 0 => ret[t].app # ret[u].app
         /\ (pc[t] = "built" /\ ret[u].app # 0)
              => frame[t].app_obj # ret[u].app

\* C7: under every interleaving, each invocation has an app object of its
\* own, invoked with that invocation's arguments only; each caller gets the
\* result of its own app object; no factory is written.
C7_Isolation ==
  /\ [] C7_State
  /\ [][ /\ factories' = factories
         /\ \A t \in Threads :
              (pc[t] = "built" /\ pc'[t] = "idle")
                => ret'[t] = AppResult(frame[t].app_obj, frame[t].args,
                                       frame[t].kwargs)
         /\ \A t \in Threads : pc'[t] = pc[t] => ret'[t] = ret[t] ]_vars

\* Both threads are between the two statements of __call__ of one factory,
\* with different arguments.
C7_Witness ==
  /\ pc["t1"] = "built" /\ pc["t2"] = "built"
  /\ frame["t1"].args # frame["t2"].args
  /\ frame["t1"].self = frame["t2"].self

\* C8: no step changes the registry or a field of an existing factory; the
\* registry keeps its name and its two kinds, and every factory its status.
C8_WriteOnce ==
  /\ [](/\ registry.name = "central"
        /\ DOMAIN registry.apps = {"bash", "python"}
        /\ registry.apps["bash"] = BashApp
        /\ registry.apps["python"] = PythonApp
        /\ \A i \in Factories : factories[i].status = "created")
  /\ [][ /\ registry' = registry
         /\ Len(factories') >= Len(factories)
         /\ \A i \in Factories : factories'[i] = factories[i] ]_vars

\* A factory has been invoked, and a later call of make for an unregistered
\* kind has failed.
C8_Witness ==
  /\ Len(factories) >= 1
  /\ \E a \in Apps : app_objs[a].calls # << >>
  /\ outcome.exc.type = "InvalidAppTypeError"

\* C10: unless cache is the object True, func_hash is the bare name, while
\* every app object gets the cache value the factory was given.
C10_IsTrueOnly ==
  /\ \A i \in Factories :
       /\ factories[i].cache # PyTrue
            => factories[i].func_hash = FuncName(factories[i].func)
       /\ factories[i].cache = KwArg(outcome.given[1].kwargs, "cache", PyFalse)
  /\ \A a \in Apps :
       /\ app_objs[a].cache = KwArg(outcome.given[1].kwargs, "cache", PyFalse)
       /\ app_objs[a].cache # PyTrue
            => app_objs[a].fn_hash = FuncName(app_objs[a].func)

C10_Witness ==
  \E a \in Apps :
    /\ app_objs[a].cache = PyOne
    /\ app_objs[a].func = "h"
    /\ app_objs[a].fn_hash = << 104 >>
    /\ app_objs[a].calls # << >>
====
